---- MODULE Spec2Model ----
(***************************************************************************)
(* Location store of storage/data-logic.go: CreateLocation,                *)
(* resolveCountryPart, getCountryPart, UpdateLocation, DeleteLocation,     *)
(* LocationSearchByName and GetLocation over the three tables they touch   *)
(* (db_coordinates, db_country_parts, db_locations).                       *)
(*                                                                         *)
(* Every ORM call of the source (d.db.Create, First, Related, Save,        *)
(* Delete, Find) is one store statement.  A handler is an operator that    *)
(* takes the store, its arguments and the set F of its statements that the *)
(* store rejects, and returns the new store, the returned value, the       *)
(* returned error and the statements it issued.                            *)
(***************************************************************************)
EXTENDS Integers, Sequences, FiniteSets, TLC

VARIABLES db, last, origin, failed, frame

vars == <<db, last, origin, failed, frame>>

\* ------------------------------------------------------------------ bounds

\* Each table holds at most MaxRows rows.
MaxRows == 2

\* At most MaxFailedCalls calls of a run have a statement rejected by the store.
MaxFailedCalls == 1

\* ------------------------------------------------------------ error values

Nil == "nil"
RecordNotFound == "record not found"
StoreError == "store error"

\* --------------------------------------------------------------- the data

EmptyPart == [AreaName |-> "", PostalCode |-> "", CountryPart |-> ""]
OsloEast == [AreaName |-> "Oslo", PostalCode |-> "0150", CountryPart |-> "East"]
OsloOnly == [AreaName |-> "Oslo", PostalCode |-> "", CountryPart |-> ""]

Parts == {EmptyPart, OsloEast, OsloOnly}

\* Names and search terms are sequences of characters.
OsName == <<"O", "s">>
BeName == <<"b", "e">>

Terms == {<<"O">>, <<"x">>}

NewLocation(n, lon, lat, p) ==
    [ID |-> 0, Name |-> n, Longitude |-> lon, Lattitude |-> lat,
     AreaName |-> p.AreaName, PostalCode |-> p.PostalCode, CountryPart |-> p.CountryPart]

\* The common.Location values callers pass to CreateLocation, and the ones they
\* pass to UpdateLocation: another name and other coordinates, each with every
\* CountryPart triple.
CreateInputs == { NewLocation(OsName, 10, 59, p) : p \in Parts }

UpdateInputs == { NewLocation(BeName, 20, 60, p) : p \in Parts }

ZeroLocation == NewLocation(<<>>, 0, 0, EmptyPart)

ZeroDbCoordinates == [ID |-> 0, Longitude |-> 0, Lattitude |-> 0]

ZeroDbLocation ==
    [ID |-> 0, Name |-> <<>>, Coordinates |-> ZeroDbCoordinates,
     CountryPart |-> EmptyPart, CoordinatesReferer |-> 0, CountrypartReferer |-> 0,
     Deleted |-> FALSE]

PartOf(location) ==
    [AreaName |-> location.AreaName, PostalCode |-> location.PostalCode,
     CountryPart |-> location.CountryPart]

isEmpty(part) == part.AreaName = "" /\ part.PostalCode = "" /\ part.CountryPart = ""

mapLocation(location) ==
    [ZeroDbLocation EXCEPT
        !.Name = location.Name,
        !.Coordinates = [ID |-> 0, Longitude |-> location.Longitude,
                         Lattitude |-> location.Lattitude],
        !.CountryPart = PartOf(location)]

demapLocation(l) ==
    [ID |-> l.ID, Name |-> l.Name,
     Longitude |-> l.Coordinates.Longitude, Lattitude |-> l.Coordinates.Lattitude,
     AreaName |-> l.CountryPart.AreaName, PostalCode |-> l.CountryPart.PostalCode,
     CountryPart |-> l.CountryPart.CountryPart]

\* -------------------------------------------------------------- the store

\* A row's identifier is its index in its table (auto-increment from 1).  A
\* Location row also records whether, when it was inserted, its
\* coordinates_referer named a Coordinates row the store already held.
EmptyDb == [coordinates |-> <<>>, parts |-> <<>>, locations |-> <<>>]

Fits(d) ==
    /\ Len(d.coordinates) <= MaxRows
    /\ Len(d.parts) <= MaxRows
    /\ Len(d.locations) <= MaxRows

Min(S) == CHOOSE x \in S : \A y \in S : x <= y

Done(name, e) == [stmt |-> name, err |-> e]

\* d.db.Create(&mappedLocation.Coordinates)
InsertCoordinates(d, c) ==
    [d EXCEPT !.coordinates =
        Append(@, [Longitude |-> c.Longitude, Lattitude |-> c.Lattitude])]

\* d.db.Create(&part)
InsertCountryPart(d, part) ==
    [d EXCEPT !.parts = Append(@, part)]

LocationRow(d, l) ==
    [Name |-> l.Name, CoordinatesReferer |-> l.CoordinatesReferer,
     CountrypartReferer |-> l.CountrypartReferer, Deleted |-> l.Deleted,
     resolvable |-> l.CoordinatesReferer \in DOMAIN d.coordinates]

\* d.db.Create(&mappedLocation)
InsertLocation(d, l) ==
    [d EXCEPT !.locations = Append(@, LocationRow(d, l))]

\* The rows a default (soft-delete scoped) query on db_locations sees.
Live(d) == {i \in DOMAIN d.locations : ~d.locations[i].Deleted}

\* d.db.First(&loc, ID): the row as a DbLocation, sub-entities not loaded.
LoadLocation(d, ID) ==
    [ZeroDbLocation EXCEPT
        !.ID = ID,
        !.Name = d.locations[ID].Name,
        !.CoordinatesReferer = d.locations[ID].CoordinatesReferer,
        !.CountrypartReferer = d.locations[ID].CountrypartReferer,
        !.Deleted = d.locations[ID].Deleted]

\* A load that also sees soft-deleted rows (an Unscoped query).
FirstLocation_Unscoped(d, ID, F) ==
    IF "firstLocation" \in F
    THEN [loc |-> ZeroDbLocation, err |-> StoreError]
    ELSE IF ID \in DOMAIN d.locations
         THEN [loc |-> LoadLocation(d, ID), err |-> Nil]
         ELSE [loc |-> ZeroDbLocation, err |-> RecordNotFound]

FirstLocation(d, ID, F) ==
    IF "firstLocation" \in F
    THEN [loc |-> ZeroDbLocation, err |-> StoreError]
    ELSE IF ID \in Live(d)
         THEN [loc |-> LoadLocation(d, ID), err |-> Nil]
         ELSE [loc |-> ZeroDbLocation, err |-> RecordNotFound]

\* d.db.Model(&existingLocation).Related(&coordinates, "Coordinates"): the
\* Coordinates row whose id is the location's CoordinatesReferer.
RelatedCoordinates(d, l, F) ==
    IF "relatedCoordinates" \in F
    THEN [coordinates |-> ZeroDbCoordinates, err |-> StoreError]
    ELSE IF l.CoordinatesReferer \in DOMAIN d.coordinates
         THEN [coordinates |->
                  [ID |-> l.CoordinatesReferer,
                   Longitude |-> d.coordinates[l.CoordinatesReferer].Longitude,
                   Lattitude |-> d.coordinates[l.CoordinatesReferer].Lattitude],
               err |-> Nil]
         ELSE [coordinates |-> ZeroDbCoordinates, err |-> RecordNotFound]

\* d.db.Save(&existingLocation): an update of every column of the row with the
\* record's primary key, an insert when the primary key is zero.  The record's
\* Coordinates and CountryPart sub-records are blank and are not written.
SaveLocation(d, l) ==
    IF l.ID \in DOMAIN d.locations
    THEN [d EXCEPT !.locations[l.ID] =
            [LocationRow(d, l) EXCEPT !.resolvable = d.locations[l.ID].resolvable]]
    ELSE InsertLocation(d, l)

\* d.db.Delete(&loc) on a model with a DeletedAt column: the row is marked.
SoftDelete(d, ID) ==
    IF ID \in Live(d) THEN [d EXCEPT !.locations[ID].Deleted = TRUE] ELSE d

\* strings.ToLower
LowerChar(c) == IF c = "O" THEN "o" ELSE IF c = "B" THEN "b" ELSE c

ToLower(s) == [i \in DOMAIN s |-> LowerChar(s[i])]

\* name LIKE pattern% under the connection's default (case-insensitive) collation
Like(name, pattern) ==
    /\ Len(pattern) <= Len(name)
    /\ \A i \in DOMAIN pattern : LowerChar(name[i]) = LowerChar(pattern[i])

\* ------------------------------------------------------------ the handlers

\* A lookup that compares area_name alone.
getCountryPart_AreaNameOnly(d, part, F) ==
    IF "firstCountryPart" \in F
    THEN [id |-> 0, stmts |-> <<Done("firstCountryPart", StoreError)>>]
    ELSE LET m == {i \in DOMAIN d.parts : d.parts[i].AreaName = part.AreaName}
         IN IF m = {}
            THEN [id |-> 0, stmts |-> <<Done("firstCountryPart", RecordNotFound)>>]
            ELSE [id |-> Min(m), stmts |-> <<Done("firstCountryPart", Nil)>>]

getCountryPart(d, part, F) ==
    IF "firstCountryPart" \in F
    THEN [id |-> 0, stmts |-> <<Done("firstCountryPart", StoreError)>>]
    ELSE LET m == {i \in DOMAIN d.parts : d.parts[i] = part}
         IN IF m = {}
            THEN [id |-> 0, stmts |-> <<Done("firstCountryPart", RecordNotFound)>>]
            ELSE [id |-> Min(m), stmts |-> <<Done("firstCountryPart", Nil)>>]

\* A resolve without the isEmpty test.
resolveCountryPart_NoSentinel(d, part, F) ==
    LET g == getCountryPart(d, part, F)
    IN IF g.id = 0
       THEN IF "createCountryPart" \in F
            THEN [db |-> d, id |-> 0,
                  stmts |-> g.stmts \o <<Done("createCountryPart", StoreError)>>]
            ELSE [db |-> InsertCountryPart(d, part), id |-> Len(d.parts) + 1,
                  stmts |-> g.stmts \o <<Done("createCountryPart", Nil)>>]
       ELSE [db |-> d, id |-> g.id, stmts |-> g.stmts]

\* A resolve that inserts without looking up first.
resolveCountryPart_AlwaysInserts(d, part, F) ==
    IF ~isEmpty(part)
    THEN IF "createCountryPart" \in F
         THEN [db |-> d, id |-> 0, stmts |-> <<Done("createCountryPart", StoreError)>>]
         ELSE [db |-> InsertCountryPart(d, part), id |-> Len(d.parts) + 1,
               stmts |-> <<Done("createCountryPart", Nil)>>]
    ELSE [db |-> d, id |-> 0, stmts |-> <<>>]

resolveCountryPart(d, part, F) ==
    IF ~isEmpty(part)
    THEN LET g == getCountryPart(d, part, F)
         IN IF g.id = 0
            THEN IF "createCountryPart" \in F
                 THEN [db |-> d, id |-> 0,
                       stmts |-> g.stmts \o <<Done("createCountryPart", StoreError)>>]
                 ELSE [db |-> InsertCountryPart(d, part), id |-> Len(d.parts) + 1,
                       stmts |-> g.stmts \o <<Done("createCountryPart", Nil)>>]
            ELSE [db |-> d, id |-> g.id, stmts |-> g.stmts]
    ELSE [db |-> d, id |-> 0, stmts |-> <<>>]

CreateLocation(d, location, F) ==
    LET mappedLocation == mapLocation(location)
    IN IF "createCoordinates" \in F
       THEN [db |-> d, ret |-> location, err |-> StoreError,
             stmts |-> <<Done("createCoordinates", StoreError)>>]
       ELSE
       LET d1 == InsertCoordinates(d, mappedLocation.Coordinates)
           r == resolveCountryPart(d1, mappedLocation.CountryPart, F)
           stored == [mappedLocation EXCEPT
                        !.Coordinates.ID = Len(d1.coordinates),
                        !.CoordinatesReferer = Len(d1.coordinates),
                        !.CountrypartReferer = r.id]
           issued == <<Done("createCoordinates", Nil)>> \o r.stmts
       IN IF "createLocation" \in F
          THEN [db |-> r.db, ret |-> location, err |-> StoreError,
                stmts |-> issued \o <<Done("createLocation", StoreError)>>]
          ELSE [db |-> InsertLocation(r.db, stored),
                ret |-> demapLocation([stored EXCEPT !.ID = Len(r.db.locations) + 1]),
                err |-> Nil,
                stmts |-> issued \o <<Done("createLocation", Nil)>>]

\* An update that goes on to Save when the coordinates could not be found.
UpdateLocation_IgnoresRelated(d, ID, location, F) ==
    LET f == FirstLocation(d, ID, F)
        r == resolveCountryPart(d, PartOf(location), F)
        rel == RelatedCoordinates(r.db, f.loc, F)
        issued == <<Done("firstLocation", f.err)>> \o r.stmts
                     \o <<Done("relatedCoordinates", rel.err)>>
        updated == [f.loc EXCEPT !.CountrypartReferer = r.id]
    IN IF "saveLocation" \in F
       THEN [db |-> r.db, ret |-> demapLocation(updated), err |-> StoreError,
             stmts |-> issued \o <<Done("saveLocation", StoreError)>>]
       ELSE [db |-> SaveLocation(r.db, updated), ret |-> demapLocation(updated),
             err |-> Nil, stmts |-> issued \o <<Done("saveLocation", Nil)>>]

\* An update that also writes the input's longitude and latitude to the
\* Location's Coordinates row.
UpdateLocation_WritesCoordinates(d, ID, location, F) ==
    LET f == FirstLocation(d, ID, F)
        r == resolveCountryPart(d, PartOf(location), F)
        rel == RelatedCoordinates(r.db, f.loc, F)
        issued == <<Done("firstLocation", f.err)>> \o r.stmts
                     \o <<Done("relatedCoordinates", rel.err)>>
    IN IF rel.err # Nil
       THEN [db |-> r.db, ret |-> location, err |-> rel.err, stmts |-> issued]
       ELSE
       LET updated == [f.loc EXCEPT !.CountrypartReferer = r.id]
           d2 == SaveLocation(r.db, updated)
       IN [db |-> [d2 EXCEPT !.coordinates[rel.coordinates.ID] =
                       [Longitude |-> location.Longitude,
                        Lattitude |-> location.Lattitude]],
           ret |-> demapLocation(updated), err |-> Nil,
           stmts |-> issued \o <<Done("saveLocation", Nil)>>]

UpdateLocation(d, ID, location, F) ==
    LET f == FirstLocation(d, ID, F)
        existingLocation == f.loc
        newCountryPart == PartOf(location)
        r == resolveCountryPart(d, newCountryPart, F)
        rel == RelatedCoordinates(r.db, existingLocation, F)
        issued == <<Done("firstLocation", f.err)>> \o r.stmts
                     \o <<Done("relatedCoordinates", rel.err)>>
    IN IF rel.err # Nil
       THEN [db |-> r.db, ret |-> location, err |-> rel.err, stmts |-> issued]
       ELSE
       LET updated == [existingLocation EXCEPT !.CountrypartReferer = r.id]
       IN IF "saveLocation" \in F
          THEN [db |-> r.db, ret |-> demapLocation(updated), err |-> StoreError,
                stmts |-> issued \o <<Done("saveLocation", StoreError)>>]
          ELSE [db |-> SaveLocation(r.db, updated), ret |-> demapLocation(updated),
                err |-> Nil, stmts |-> issued \o <<Done("saveLocation", Nil)>>]

\* A delete that does not return on the error of its load.
DeleteLocation_NoCheck(d, ID, F) ==
    LET f == FirstLocation(d, ID, F)
    IN IF "deleteLocation" \in F
       THEN [db |-> d, ret |-> ZeroLocation, err |-> StoreError,
             stmts |-> <<Done("firstLocation", f.err),
                         Done("deleteLocation", StoreError)>>]
       ELSE [db |-> SoftDelete(d, ID), ret |-> ZeroLocation, err |-> Nil,
             stmts |-> <<Done("firstLocation", f.err), Done("deleteLocation", Nil)>>]

DeleteLocation(d, ID, F) ==
    LET f == FirstLocation(d, ID, F)
    IN IF f.err # Nil
       THEN [db |-> d, ret |-> ZeroLocation, err |-> f.err,
             stmts |-> <<Done("firstLocation", f.err)>>]
       ELSE IF "deleteLocation" \in F
            THEN [db |-> d, ret |-> ZeroLocation, err |-> StoreError,
                  stmts |-> <<Done("firstLocation", Nil),
                              Done("deleteLocation", StoreError)>>]
            ELSE [db |-> SoftDelete(d, ID), ret |-> ZeroLocation, err |-> Nil,
                  stmts |-> <<Done("firstLocation", Nil), Done("deleteLocation", Nil)>>]

GetLocation(d, ID, F) ==
    LET f == FirstLocation(d, ID, F)
    IN [db |-> d, ret |-> demapLocation(f.loc), err |-> f.err,
        stmts |-> <<Done("firstLocation", f.err)>>]

RECURSIVE demapLocations(_, _, _)
\* The live rows matching the pattern, in identifier order, demapped.
demapLocations(d, pattern, n) ==
    IF n = 0 THEN <<>>
    ELSE LET rest == demapLocations(d, pattern, n - 1)
         IN IF n \in Live(d) /\ Like(d.locations[n].Name, pattern)
            THEN Append(rest, demapLocation(LoadLocation(d, n)))
            ELSE rest

LocationSearchByName(d, name, F) ==
    IF "findLocations" \in F
    THEN [db |-> d, list |-> <<>>, err |-> StoreError,
          stmts |-> <<Done("findLocations", StoreError)>>]
    ELSE [db |-> d, list |-> demapLocations(d, ToLower(name), Len(d.locations)),
          err |-> Nil, stmts |-> <<Done("findLocations", Nil)>>]

\* ------------------------------------------------- calls, one at a time

\* A resolveCountryPart call that directly follows a resolveCountryPart call
\* with the same triple.
Again(op, location) ==
    /\ op = "resolveCountryPart"
    /\ last.op = "resolveCountryPart"
    /\ last.part = PartOf(location)

\* The record of the latest call: its arguments, what it returned, the store
\* statements it issued and, for a repeated resolveCountryPart call, what the
\* call before it returned.
Outcome(op, ID, location, name, r) ==
    [op |-> op, ID |-> ID, location |-> location, name |-> name,
     part |-> PartOf(location), ret |-> r.ret, list |-> r.list, err |-> r.err,
     id |-> r.id, stmts |-> r.stmts,
     again |-> Again(op, location),
     before |-> IF Again(op, location) THEN last.id ELSE 0]

Updated == [AreaName |-> "?", PostalCode |-> "?", CountryPart |-> "?"]

\* origin[i]: the CountryPart triple Location i was created with, as long as
\* every Location row is as its CreateLocation call wrote it; Updated for every
\* row once an UpdateLocation call has written one.
Origin(op, location, r) ==
    IF \/ op = "UpdateLocation" /\ r.db.locations # db.locations
       \/ \E i \in DOMAIN origin : origin[i] = Updated
    THEN [i \in DOMAIN r.db.locations |-> Updated]
    ELSE [i \in DOMAIN r.db.locations |->
            IF i \in DOMAIN origin THEN origin[i] ELSE PartOf(location)]

Return(op, ID, location, name, r, F) ==
    /\ F # {} => failed < MaxFailedCalls
    /\ Fits(r.db)
    /\ failed' = IF F # {} THEN failed + 1 ELSE failed
    /\ db' = r.db
    /\ last' = Outcome(op, ID, location, name, r)
    /\ origin' = Origin(op, location, r)
    /\ UNCHANGED frame

\* The identifiers callers pass: every Location's, and one no Location has.
Ids == 1 .. (Len(db.locations) + 1)

CreateStmts == {"createCoordinates", "firstCountryPart", "createCountryPart",
                "createLocation"}
UpdateStmts == {"firstLocation", "firstCountryPart", "createCountryPart",
                "relatedCoordinates", "saveLocation"}
DeleteStmts == {"firstLocation", "deleteLocation"}
GetStmts == {"firstLocation"}
SearchStmts == {"findLocations"}
ResolveStmts == {"firstCountryPart", "createCountryPart"}

CallCreateLocation(F) ==
    \E location \in CreateInputs :
        LET r == CreateLocation(db, location, F)
        IN Return("CreateLocation", 0, location, <<>>,
                  [db |-> r.db, ret |-> r.ret, list |-> <<>>, err |-> r.err,
                   id |-> 0, stmts |-> r.stmts], F)

CallUpdateLocation(F) ==
    \E ID \in Ids, location \in UpdateInputs :
        LET r == UpdateLocation(db, ID, location, F)
        IN Return("UpdateLocation", ID, location, <<>>,
                  [db |-> r.db, ret |-> r.ret, list |-> <<>>, err |-> r.err,
                   id |-> 0, stmts |-> r.stmts], F)

CallDeleteLocation(F) ==
    \E ID \in Ids :
        LET r == DeleteLocation(db, ID, F)
        IN Return("DeleteLocation", ID, ZeroLocation, <<>>,
                  [db |-> r.db, ret |-> r.ret, list |-> <<>>, err |-> r.err,
                   id |-> 0, stmts |-> r.stmts], F)

CallGetLocation(F) ==
    \E ID \in Ids :
        LET r == GetLocation(db, ID, F)
        IN Return("GetLocation", ID, ZeroLocation, <<>>,
                  [db |-> r.db, ret |-> r.ret, list |-> <<>>, err |-> r.err,
                   id |-> 0, stmts |-> r.stmts], F)

CallLocationSearchByName(F) ==
    \E name \in Terms :
        LET r == LocationSearchByName(db, name, F)
        IN Return("LocationSearchByName", 0, ZeroLocation, name,
                  [db |-> r.db, ret |-> ZeroLocation, list |-> r.list, err |-> r.err,
                   id |-> 0, stmts |-> r.stmts], F)

CallResolveCountryPart(F) ==
    \E part \in Parts :
        LET r == resolveCountryPart(db, part, F)
        IN Return("resolveCountryPart", 0, NewLocation(<<>>, 0, 0, part), <<>>,
                  [db |-> r.db, ret |-> ZeroLocation, list |-> <<>>, err |-> Nil,
                   id |-> r.id, stmts |-> r.stmts], F)

\* Calls against a store that accepts every statement.
CreateLocationOk == CallCreateLocation({})
UpdateLocationOk == CallUpdateLocation({})
DeleteLocationOk == CallDeleteLocation({})
GetLocationOk == CallGetLocation({})
LocationSearchByNameOk == CallLocationSearchByName({})
ResolveCountryPartOk == CallResolveCountryPart({})

NoCall ==
    [op |-> "none", ID |-> 0, location |-> ZeroLocation, name |-> <<>>,
     part |-> EmptyPart, ret |-> ZeroLocation, list |-> <<>>, err |-> Nil,
     id |-> 0, stmts |-> <<>>, again |-> FALSE, before |-> 0]

Procs == {"p1", "p2"}

Idle == [pc |-> "idle", op |-> "none", ID |-> 0, location |-> ZeroLocation,
         loc |-> ZeroDbLocation, partID |-> 0]

Init ==
    /\ db = EmptyDb
    /\ last = NoCall
    /\ origin = <<>>
    /\ failed = 0
    /\ frame = [p \in Procs |-> Idle]

Next ==
    \/ CreateLocationOk
    \/ UpdateLocationOk
    \/ DeleteLocationOk
    \/ GetLocationOk
    \/ LocationSearchByNameOk
    \/ ResolveCountryPartOk

Spec == Init /\ [][Next]_vars

\* ------------------------------------- calls against a store that may fail

\* The same calls, the store rejecting a non-empty set F of the statements the
\* handler can issue (a statement the handler does not reach rejects nothing).
Rejected(S) == IF failed < MaxFailedCalls THEN SUBSET S \ {{}} ELSE {}

CreateLocationFails == \E F \in Rejected(CreateStmts) : CallCreateLocation(F)
UpdateLocationFails == \E F \in Rejected(UpdateStmts) : CallUpdateLocation(F)
DeleteLocationFails == \E F \in Rejected(DeleteStmts) : CallDeleteLocation(F)
GetLocationFails == \E F \in Rejected(GetStmts) : CallGetLocation(F)
LocationSearchByNameFails == \E F \in Rejected(SearchStmts) : CallLocationSearchByName(F)

NextFail ==
    \/ Next
    \/ CreateLocationFails
    \/ UpdateLocationFails
    \/ DeleteLocationFails
    \/ GetLocationFails
    \/ LocationSearchByNameFails

SpecFail == Init /\ [][NextFail]_vars

\* ---------------------------------------------------- concurrent callers

\* Each caller runs CreateLocation or UpdateLocation one store statement at a
\* time; the statements of different callers interleave freely (no transaction,
\* no lock).  frame[p] holds caller p's position and local variables.

Running(op) == {p \in Procs : frame[p].pc # "idle" /\ frame[p].op = op}

Busy == {p \in Procs : frame[p].pc # "idle"}

\* A call starts only when every row the calls in flight may still insert fits.
RoomForCreate ==
    /\ Len(db.coordinates) + Cardinality(Running("CreateLocation")) < MaxRows
    /\ Len(db.locations) + Cardinality(Running("CreateLocation")) < MaxRows
    /\ Len(db.parts) + Cardinality(Busy) < MaxRows

RoomForUpdate == Len(db.parts) + Cardinality(Busy) < MaxRows

\* The triple the caller resolves: mappedLocation.CountryPart or newCountryPart.
PartArg(p) ==
    IF frame[p].op = "CreateLocation"
    THEN frame[p].loc.CountryPart
    ELSE PartOf(frame[p].location)

\* Where the caller continues once resolveCountryPart has returned.
AfterResolve(p) ==
    IF frame[p].op = "CreateLocation" THEN "createLocation" ELSE "relatedCoordinates"

Quiet == UNCHANGED <<last, origin, failed>>

BeginCreateLocation(p) ==
    /\ frame[p].pc = "idle"
    /\ RoomForCreate
    /\ \E location \in CreateInputs :
          frame' = [frame EXCEPT ![p] =
                      [pc |-> "createCoordinates", op |-> "CreateLocation", ID |-> 0,
                       location |-> location, loc |-> mapLocation(location),
                       partID |-> 0]]
    /\ UNCHANGED db
    /\ Quiet

BeginUpdateLocation(p) ==
    /\ frame[p].pc = "idle"
    /\ RoomForUpdate
    /\ \E ID \in Ids, location \in UpdateInputs :
          frame' = [frame EXCEPT ![p] =
                      [pc |-> "firstLocation", op |-> "UpdateLocation", ID |-> ID,
                       location |-> location, loc |-> ZeroDbLocation, partID |-> 0]]
    /\ UNCHANGED db
    /\ Quiet

StepCreateCoordinates(p) ==
    /\ frame[p].pc = "createCoordinates"
    /\ db' = InsertCoordinates(db, frame[p].loc.Coordinates)
    /\ frame' = [frame EXCEPT ![p].loc.Coordinates.ID = Len(db.coordinates) + 1,
                              ![p].pc = "getCountryPart"]
    /\ Quiet

StepFirstLocation(p) ==
    /\ frame[p].pc = "firstLocation"
    /\ frame' = [frame EXCEPT ![p].loc = FirstLocation(db, frame[p].ID, {}).loc,
                              ![p].pc = "getCountryPart"]
    /\ UNCHANGED db
    /\ Quiet

\* resolveCountryPart up to and including its lookup.
StepGetCountryPart(p) ==
    /\ frame[p].pc = "getCountryPart"
    /\ IF isEmpty(PartArg(p))
       THEN frame' = [frame EXCEPT ![p].partID = 0, ![p].pc = AfterResolve(p)]
       ELSE LET comboID == getCountryPart(db, PartArg(p), {}).id
            IN IF comboID = 0
               THEN frame' = [frame EXCEPT ![p].pc = "createCountryPart"]
               ELSE frame' = [frame EXCEPT ![p].partID = comboID,
                                           ![p].pc = AfterResolve(p)]
    /\ UNCHANGED db
    /\ Quiet

\* resolveCountryPart's insert, after a lookup that found nothing.
StepCreateCountryPart(p) ==
    /\ frame[p].pc = "createCountryPart"
    /\ db' = InsertCountryPart(db, PartArg(p))
    /\ frame' = [frame EXCEPT ![p].partID = Len(db.parts) + 1,
                              ![p].pc = AfterResolve(p)]
    /\ Quiet

StepCreateLocation(p) ==
    /\ frame[p].pc = "createLocation"
    /\ db' = InsertLocation(db,
                [frame[p].loc EXCEPT
                    !.CoordinatesReferer = frame[p].loc.Coordinates.ID,
                    !.CountrypartReferer = frame[p].partID])
    /\ frame' = [frame EXCEPT ![p] = Idle]
    /\ Quiet

StepRelatedCoordinates(p) ==
    /\ frame[p].pc = "relatedCoordinates"
    /\ IF RelatedCoordinates(db, frame[p].loc, {}).err # Nil
       THEN frame' = [frame EXCEPT ![p] = Idle]
       ELSE frame' = [frame EXCEPT ![p].pc = "saveLocation"]
    /\ UNCHANGED db
    /\ Quiet

StepSaveLocation(p) ==
    /\ frame[p].pc = "saveLocation"
    /\ db' = SaveLocation(db,
                [frame[p].loc EXCEPT !.CountrypartReferer = frame[p].partID])
    /\ frame' = [frame EXCEPT ![p] = Idle]
    /\ Quiet

NextConc ==
    \E p \in Procs :
        \/ BeginCreateLocation(p)
        \/ BeginUpdateLocation(p)
        \/ StepCreateCoordinates(p)
        \/ StepFirstLocation(p)
        \/ StepGetCountryPart(p)
        \/ StepCreateCountryPart(p)
        \/ StepCreateLocation(p)
        \/ StepRelatedCoordinates(p)
        \/ StepSaveLocation(p)

SpecConc == Init /\ [][NextConc]_vars

\* ------------------------------------------------------------ properties

RowsWith(d, part) == {i \in DOMAIN d.parts : d.parts[i] = part}

PartStmts == {"firstCountryPart", "createCountryPart"}

Issued(names) == {k \in DOMAIN last.stmts : last.stmts[k].stmt \in names}

C2_NoDuplicateCountryParts ==
    \A i, j \in DOMAIN db.parts : db.parts[i] = db.parts[j] => i = j

C4_EmptySentinel ==
    /\ \A i \in DOMAIN db.parts : ~isEmpty(db.parts[i])
    /\ (last.op \in {"resolveCountryPart", "CreateLocation", "UpdateLocation"}
            /\ isEmpty(last.part)) =>
        /\ Issued(PartStmts) = {}
        /\ last.id = 0
        /\ (last.op # "resolveCountryPart" /\ last.err = Nil) =>
              db.locations[last.ret.ID].CountrypartReferer = 0

C4_Witness ==
    /\ last.op = "UpdateLocation"
    /\ isEmpty(last.part)
    /\ last.err = Nil
    /\ db.parts # <<>>

\* C5: every Location row's coordinates reference is the identifier of a
\* Coordinates row of the store, that row was in the store when the Location row
\* was inserted, and no two Location rows reference the same Coordinates row.
C5_CoordinatesOwned ==
    \A i \in DOMAIN db.locations :
        /\ db.locations[i].CoordinatesReferer \in DOMAIN db.coordinates
        /\ db.locations[i].resolvable
        /\ \A j \in DOMAIN db.locations :
              db.locations[j].CoordinatesReferer = db.locations[i].CoordinatesReferer
                  => i = j

\* An UpdateLocation call on the identifier of a soft-deleted Location has
\* returned, with another Location in the store.
C5_Witness ==
    /\ last.op = "UpdateLocation"
    /\ last.ID \in DOMAIN db.locations
    /\ db.locations[last.ID].Deleted
    /\ Len(db.locations) = 2

C7_SoftDelete ==
    [][/\ \A i \in DOMAIN db.locations :
             db.locations[i].Deleted =>
                 (i \in DOMAIN db'.locations /\ db'.locations[i].Deleted)
       /\ (last'.op = "DeleteLocation" /\ last'.ID \in Live(db)) =>
             /\ last'.err = Nil
             /\ db' = [db EXCEPT !.locations[last'.ID].Deleted = TRUE]
       /\ (last'.op = "GetLocation" /\ last'.ID \in DOMAIN db'.locations
              /\ db'.locations[last'.ID].Deleted) =>
             last'.err = RecordNotFound
       /\ last'.op = "LocationSearchByName" =>
             \A k \in DOMAIN last'.list :
                 /\ last'.list[k].ID \in DOMAIN db'.locations
                 /\ ~db'.locations[last'.list[k].ID].Deleted]_vars

C7_Witness ==
    /\ last.op = "GetLocation"
    /\ last.ID \in DOMAIN db.locations
    /\ db.locations[last.ID].Deleted
    /\ last.err = RecordNotFound

\* C8: UpdateLocation on an identifier that names no non-deleted Location returns
\* the not-found error and leaves the store as it was.
C8_UpdateMissing ==
    [][(last'.op = "UpdateLocation" /\ last'.ID \notin Live(db)) =>
          /\ last'.err = RecordNotFound
          /\ db' = db]_vars

\* C9: DeleteLocation and GetLocation on an identifier that names no non-deleted
\* Location return the not-found error and leave the store as it was;
\* GetLocation returns the zero-value Location with it.
C9_MissingIdentifier ==
    [][(last'.op \in {"DeleteLocation", "GetLocation"} /\ last'.ID \notin Live(db)) =>
          /\ last'.err = RecordNotFound
          /\ db' = db
          /\ last'.ret = ZeroLocation]_vars

\* DeleteLocation has been called on the identifier of a Location that was
\* already soft-deleted.
C9_Witness ==
    /\ last.op = "DeleteLocation"
    /\ last.ID \in DOMAIN db.locations
    /\ db.locations[last.ID].Deleted
    /\ last.err = RecordNotFound
    /\ last.stmts = <<Done("firstLocation", RecordNotFound)>>

\* C10: a call in which the store rejected a statement other than the CountryPart
\* insert returns an error.
C10_FailuresReturned ==
    (\E k \in DOMAIN last.stmts :
        /\ last.stmts[k].err = StoreError
        /\ last.stmts[k].stmt # "createCountryPart") =>
        last.err # Nil

====
